---- MODULE Spec2Model ----
(***************************************************************************)
(* Model of the real-time chat session of the agent platform:              *)
(* websocket_endpoint (main.py), ChatManager (chat.py) and the Database    *)
(* calls it makes (database.py); and of the endpoints that write the agent *)
(* catalog (main.py) and the entitlement table (auth.py, admin.py,         *)
(* payments.py), each under a specification of its own.                    *)
(*                                                                         *)
(* Every `await` of the handler is a suspension point, so every action     *)
(* below runs the handler of one channel from one await to the next.       *)
(* Text (message bodies, response fragments) is a sequence of characters,  *)
(* so that `+=` is \o and len() is Len.  Identifiers are strings; Python's  *)
(* None is the reserved value None.                                        *)
(***************************************************************************)
EXTENDS Integers, Sequences, FiniteSets, TLC

VARIABLES
    pc,                 \* position of each channel's handler
    client_open,        \* TRUE while the client side of the channel is open
    frame,              \* locals of websocket_endpoint, per channel
    generator,          \* state of get_agent_response_stream, per channel
    out,                \* records delivered to the client of each channel
                        \* since its last inbound record was read
    active_connections, \* WebSocketManager's registry
    user_agent_access,  \* table user_agent_access
    conversations,      \* table conversations
    messages,           \* table messages
    activity_logs,      \* table activity_logs
    now,                \* the store's clock, as last read by a statement
    uuid_seq,           \* number of identifiers gen_random_uuid() has issued
    received,           \* number of inbound records read so far, all channels
    openai_client,      \* TRUE iff ChatManager has a backend client
    agent_manager,      \* agent_manager.agents: the catalog, a dict by id
    toggle,             \* toggle_user_agent_access calls in flight, per admin
    registration,       \* progress of register_user for the new user
    users,              \* table users: the identifiers of its rows
    deletion,           \* the delete_user call in flight
    cleanup,            \* the cleanup_old_data call in flight
    payment,            \* the last verify_payment call and its result
    db_pool,            \* Database.pool: None or the pool it refers to
    db_calls            \* get_connection / release_connection, per caller

vars == <<pc, client_open, frame, generator, out, active_connections,
          user_agent_access, conversations, messages, activity_logs, now,
          uuid_seq, received, openai_client, agent_manager, toggle,
          registration, users, deletion, cleanup, payment, db_pool, db_calls>>

----------------------------------------------------------------------------
(* Bounds *)

MaxRequests == 1    \* inbound records read, over all channels
MaxChunks == 2      \* fragments the backend streams for one request
MaxClock == 1       \* largest value of the store's clock

Channels == {"ws1"}
Users == {"u1"}
\* the identifier create_user returns for the user that registers; before
\* that no row of table users has it
NewUser == "u2"
Admins == {"adm1", "adm2"}  \* concurrent admin requests
Callers == {"k1", "k2", "k3"}  \* concurrent callers of a Database method

----------------------------------------------------------------------------
(* Values *)

None == "None"

\* the agent catalog of AgentManager.__init__, restricted to one free and
\* one paid agent
agents == [a \in {"code-helper", "data-scientist"} |->
             IF a = "code-helper" THEN [id |-> a, type |-> "free"]
                                  ELSE [id |-> a, type |-> "paid"]]

\* the literal list inside check_agent_access
free_agents == {"creative-writer", "code-helper", "research-assistant"}

Hi == <<"h", "i">>
UnavailableText == <<"N", "A">>
SorryText == <<"S", "o", "r", "r", "y">>

\* gen_random_uuid(), as text
Uuid(n) == <<"c1", "c2", "c3", "c4", "c5", "c6">>[n]


----------------------------------------------------------------------------
(* Inbound records: what json.loads(data) can return *)

\* a JSON object holding the keys of `has`; the other fields are unused
Json(has, u, a, m, cid) ==
    [kind |-> "json", has |-> has, user_id |-> u, agent_id |-> a,
     message |-> m, conversation_id |-> cid]

\* a text that json.loads rejects
Malformed == [kind |-> "malformed", has |-> {}, user_id |-> "", agent_id |-> "",
              message |-> <<>>, conversation_id |-> ""]

\* well-formed requests: with and without a conversation identifier
WellFormed ==
    {Json({"user_id", "agent_id", "message"}, "u1", a, Hi, "") :
        a \in DOMAIN agents}
    \cup {Json({"user_id", "agent_id", "message", "conversation_id"},
               "u1", a, Hi, Uuid(1)) : a \in DOMAIN agents}

\* requests with user_id, agent_id or message absent or empty
Deficient ==
    {Json({"agent_id", "message"}, "", "code-helper", Hi, ""),
     Json({"user_id", "agent_id", "message"}, "u1", "", Hi, ""),
     Json({"user_id", "agent_id"}, "u1", "data-scientist", <<>>, ""),
     Json({"user_id", "agent_id", "message"}, "u1", "code-helper", <<>>, "")}

Inbound == WellFormed \cup Deficient \cup {Malformed}

\* message_data.get(key) for the identifier-valued keys
Get(message_data, key) ==
    IF key \in message_data.has THEN message_data[key] ELSE None

\* faulty variant: the message is not looked at
MissingFieldsMutant(message_data) ==
    \/ Get(message_data, "user_id") \in {None, ""}
    \/ Get(message_data, "agent_id") \in {None, ""}

\* `not all([user_id, agent_id, message])`
MissingFields(message_data) ==
    \/ Get(message_data, "user_id") \in {None, ""}
    \/ Get(message_data, "agent_id") \in {None, ""}
    \/ "message" \notin message_data.has
    \/ message_data.message = <<>>

----------------------------------------------------------------------------
(* Outbound records: the argument of json.dumps in each send_text *)

ChunkRecord(content, conversation_id) ==
    [type |-> "chunk", content |-> content,
     conversation_id |-> conversation_id, error |-> None]

CompleteRecord(conversation_id) ==
    [type |-> "complete", content |-> <<>>,
     conversation_id |-> conversation_id, error |-> None]

\* {"error": ...}; `cause` names which of the four error texts it is
ErrorRecord(cause) ==
    [type |-> "error", content |-> <<>>, conversation_id |-> None,
     error |-> cause]

----------------------------------------------------------------------------
(* Database: the statements of database.py as operators on the tables.    *)
(* A table is the sequence of its rows in insertion order (the set of its  *)
(* rows for user_agent_access, whose key is unique).  Every row a request  *)
(* writes carries `by`, the request that wrote it.  Of the timestamp       *)
(* columns, messages.created_at is kept.                                   *)

\* the values NOW() can take for a statement issued when the clock reads t
Times(t) == {u \in {t, t + 1} : u <= MaxClock}

\* INSERT INTO activity_logs
log_activity(table, user_id, action, metadata, by) ==
    Append(table, [user_id |-> user_id, action |-> action,
                   metadata |-> metadata, by |-> by])

\* the metadata objects of the two log_activity calls of the handler
SentMetadata(agent_id, conversation_id, message) ==
    [agent_id |-> agent_id, conversation_id |-> conversation_id,
     length |-> Len(message)]

\* faulty variant: the response length is not filled in
ReceivedMetadataMutant(agent_id, conversation_id, full_response) ==
    [agent_id |-> agent_id, conversation_id |-> conversation_id,
     length |-> 0]

ReceivedMetadata(agent_id, conversation_id, full_response) ==
    [agent_id |-> agent_id, conversation_id |-> conversation_id,
     length |-> Len(full_response)]

\* faulty variant: `access is None` for `access is not None`
check_agent_accessMutant(table, user_id, agent_id) ==
    \/ agent_id \in free_agents
    \/ ~\E row \in table : row.user_id = user_id /\ row.agent_id = agent_id

\* the body of check_agent_access once a connection is held
check_agent_access(table, user_id, agent_id) ==
    \/ agent_id \in free_agents
    \/ \E row \in table : row.user_id = user_id /\ row.agent_id = agent_id

\* INSERT ... ON CONFLICT (user_id, agent_id) DO UPDATE
grant_agent_access(table, user_id, agent_id, payment_intent_id) ==
    {row \in table : ~(row.user_id = user_id /\ row.agent_id = agent_id)}
    \cup {[user_id |-> user_id, agent_id |-> agent_id,
           payment_intent_id |-> payment_intent_id]}

\* INSERT INTO conversations ... RETURNING id
create_conversation(table, id, user_id, agent_id, by) ==
    Append(table, [id |-> id, user_id |-> user_id, agent_id |-> agent_id,
                   by |-> by])

ConversationIds(table) == {table[i].id : i \in DOMAIN table}

\* INSERT INTO messages
InsertMessage(table, conversation_id, role, content, t, by) ==
    Append(table, [conversation_id |-> conversation_id, role |-> role,
                   content |-> content, created_at |-> t, by |-> by])

\* agent_manager.get_agent: dict.get, None for an unknown id
get_agent(agent_id) ==
    IF agent_id \in DOMAIN agent_manager THEN agent_manager[agent_id].id
    ELSE None

----------------------------------------------------------------------------
(* ChatManager.get_agent_response_stream *)

\* the text of the k-th delta.content the backend streams: pairwise
\* different, so that a reordering shows
Fragment(k) == <<(<<"a", "b", "c", "d", "e", "f">>)[k]>>

\* a generator object that has not been advanced yet; `yielded` is the
\* sequence of fragments it has yielded, `raised` the number of fragments the
\* backend had streamed when it raised (-1: it has not raised)
NewGenerator == [state |-> "new", yielded |-> <<>>, raised |-> -1]

Yield(g, state, text, raised) ==
    [g |-> [state |-> state, yielded |-> Append(g.yielded, text),
            raised |-> raised],
     fragment |-> <<text>>]

Return(g) == [g |-> [g EXCEPT !.state = "finished"], fragment |-> <<>>]

\* faulty variant: the `return` after the explanatory text is missing
get_agent_response_streamMutant(g, client, agent) ==
    IF g.state = "finished" THEN {Return(g)}
    ELSE IF g.state = "new" /\ ~client
    THEN {Yield(g, "open", UnavailableText, g.raised)}
    ELSE {Yield(g, "finished", SorryText, Len(g.yielded))}

\* One __anext__ of the generator: the set of its possible results, each the
\* generator afterwards and the fragment yielded (<<>>: StopAsyncIteration).
\* Items whose delta.content is None are skipped inside one __anext__.
get_agent_response_stream(g, client, agent) ==
    IF g.state = "finished" THEN {Return(g)}
    ELSE IF g.state = "new" /\ ~client
    THEN {Yield(g, "finished", UnavailableText, g.raised)}
    ELSE IF g.state = "new" /\ agent = None
    THEN {Yield(g, "finished", SorryText, Len(g.yielded))}
    ELSE {Yield(g, "open", Fragment(k), g.raised) :
             k \in {j \in {Len(g.yielded) + 1} : j <= MaxChunks}}
         \cup {Return(g)}
         \cup {Yield(g, "finished", SorryText, Len(g.yielded))}

\* faulty variant: the chunk is put in front
AccumulateMutant(full_response, response_chunk) == response_chunk \o full_response

\* full_response += response_chunk
Accumulate(full_response, response_chunk) == full_response \o response_chunk

----------------------------------------------------------------------------
(* WebSocketManager: the registry of open channels *)

connect(registry, websocket) == registry \cup {websocket}

disconnect(registry, websocket) == registry \ {websocket}

\* what send_text raises on a channel the client has closed: Starlette's
\* WebSocketDisconnect, or the server's own error, by version
ChannelErrors == {"WebSocketDisconnect", "RuntimeError"}

----------------------------------------------------------------------------
(* The state after construction: no channel; the store is empty or holds  *)
(* a conversation that an earlier request created                          *)

Stored == create_conversation(<<>>, Uuid(1), "u1", "code-helper", <<"ws0", 1>>)

\* an admin request that has not called toggle_user_agent_access yet;
\* `existing` is the outcome of its SELECT, `result` what the call returned
\* ("raised": the INSERT raised UniqueViolationError)
NoToggle == [pc |-> "idle", user_id |-> None, agent_id |-> None,
             existing |-> FALSE, result |-> None]

\* no delete_user call yet; `result` is what the call returned ("True",
\* "False") or "raised"
NoDeletion == [pc |-> "idle", user_id |-> None, result |-> None]

\* no cleanup_old_data call yet; `old` is old_conv_ids, the identifiers its
\* SELECT found older than the cutoff
NoCleanup == [pc |-> "idle", old |-> {}]

\* no verify_payment call yet; `intent` is what stripe.PaymentIntent.retrieve
\* returned, `raised` the call that raised inside the try (None: none),
\* `result` what verify_payment returned
NoPayment == [pc |-> "idle", user_id |-> None, agent_id |-> None,
              payment_intent_id |-> None, intent |-> None, raised |-> None,
              result |-> None]

\* a caller that has not called get_connection yet; `created` is the pool its
\* create_pool returned, `conn` the pool its connection belongs to,
\* `released` how release_connection ended ("ok", "raised")
NoCall == [pc |-> "idle", created |-> None, conn |-> None, released |-> None]

\* `raised_at` names the store call of the request that raised (None: none),
\* `closed_at` is where the request was when the client closed the channel,
\* in the specification that keeps track of it (CloseSpec; None elsewhere)
NoFrame == [n |-> 0, data |-> Malformed, conversation_id |-> None,
            full_response |-> <<>>, entitled |-> "unchecked",
            raised_at |-> None, closed_at |-> None]

Init ==
    /\ pc = [c \in Channels |-> "idle"]
    /\ client_open = [c \in Channels |-> FALSE]
    /\ frame = [c \in Channels |-> NoFrame]
    /\ generator = [c \in Channels |-> NewGenerator]
    /\ out = [c \in Channels |-> <<>>]
    /\ active_connections = {}
    /\ user_agent_access = {}
    /\ \/ conversations = <<>> /\ uuid_seq = 0
       \/ conversations = Stored /\ uuid_seq = 1
    /\ messages = <<>>
    /\ activity_logs = <<>>
    /\ now = 0
    /\ received = 0
    /\ openai_client \in BOOLEAN
    /\ agent_manager = agents
    /\ toggle = [ad \in Admins |-> NoToggle]
    /\ registration = 0
    /\ users = Users
    /\ deletion = NoDeletion
    /\ cleanup = NoCleanup
    /\ payment = NoPayment
    /\ db_pool = None
    /\ db_calls = [k \in Callers |-> NoCall]

\* the state of the management endpoints
accounts == <<users, deletion, cleanup>>
pooling == <<db_pool, db_calls>>
management == <<agent_manager, toggle, registration, accounts, payment,
                pooling>>

tables == <<user_agent_access, conversations, messages, activity_logs, now, uuid_seq>>

\* the ghost tag of the request channel c is handling
Tag(c) == <<c, frame[c].n>>

\* the handler of c moves to position p
Goto(c, p) == pc' = [pc EXCEPT ![c] = p]

\* websocket.send_text delivers the record
Deliver(c, record) == out' = [out EXCEPT ![c] = Append(@, record)]

\* the handler returns, or dies of an exception nothing catches
Closed(c) == Goto(c, "closed")

\* the store call the handler of c is at raises: the handler moves to the
\* `except` block p
Raise(c, p) ==
    /\ frame' = [frame EXCEPT ![c].raised_at = pc[c]]
    /\ Goto(c, p)

\* `except WebSocketDisconnect:` of the outer try
OnWebSocketDisconnect(c) ==
    /\ active_connections' = disconnect(active_connections, c)
    /\ Closed(c)

\* an exception of type e leaves the loop body for the outer handlers
RaiseOuter(c, e) ==
    IF e = "WebSocketDisconnect"
    THEN OnWebSocketDisconnect(c)
    ELSE /\ Goto(c, "outer_except")
         /\ UNCHANGED active_connections

----------------------------------------------------------------------------
(* websocket_endpoint, one action per await *)

\* websocket_manager.connect(websocket)
Connect(c) ==
    /\ pc[c] = "idle"
    /\ active_connections' = connect(active_connections, c)
    /\ client_open' = [client_open EXCEPT ![c] = TRUE]
    /\ Goto(c, "receive")
    /\ UNCHANGED <<frame, generator, out, tables, received, openai_client, management>>

\* the client closes its side of the channel
ClientDisconnect(c) ==
    /\ pc[c] \notin {"idle", "closed"}
    /\ client_open[c]
    /\ client_open' = [client_open EXCEPT ![c] = FALSE]
    /\ UNCHANGED <<pc, frame, generator, out, active_connections, tables,
                   received, openai_client, management>>

\* receive_text returns a record; json.loads, the four .get and the
\* validation `if` follow without an await
ReceiveFrom(c, inbound, limit) ==
    /\ pc[c] = "receive"
    /\ client_open[c]
    /\ received < limit
    /\ \E message_data \in inbound :
          /\ frame' = [frame EXCEPT ![c] =
                 [n |-> @.n + 1, data |-> message_data,
                  conversation_id |-> Get(message_data, "conversation_id"),
                  full_response |-> <<>>, entitled |-> "unchecked",
                  raised_at |-> None, closed_at |-> None]]
          /\ Goto(c, IF message_data.kind = "malformed" THEN "outer_except"
                     ELSE IF MissingFields(message_data) THEN "send_missing"
                     ELSE "log_sent")
    /\ received' = received + 1
    /\ generator' = [generator EXCEPT ![c] = NewGenerator]
    /\ out' = [out EXCEPT ![c] = <<>>]
    /\ UNCHANGED <<client_open, active_connections, tables, openai_client, management>>

\* the client sends any record, MaxRequests of them at most
ReceiveText(c) == ReceiveFrom(c, Inbound, MaxRequests)

\* receive_text meets the client's close: it raises WebSocketDisconnect
ReceiveDisconnect(c) ==
    /\ pc[c] = "receive"
    /\ ~client_open[c]
    /\ OnWebSocketDisconnect(c)
    /\ UNCHANGED <<client_open, frame, generator, out, tables, received,
                   openai_client, management>>

\* faulty variant: the `continue` is missing
SendMissingFieldsMutant(c) ==
    /\ pc[c] = "send_missing"
    /\ IF client_open[c]
       THEN /\ Deliver(c, ErrorRecord("missing"))
            /\ Goto(c, "log_sent")
            /\ UNCHANGED active_connections
       ELSE /\ \E e \in ChannelErrors : RaiseOuter(c, e)
            /\ UNCHANGED out
    /\ UNCHANGED <<client_open, frame, generator, tables, received,
                   openai_client, management>>

\* send_text({"error": "Missing required fields ..."}); continue
SendMissingFields(c) ==
    /\ pc[c] = "send_missing"
    /\ IF client_open[c]
       THEN /\ Deliver(c, ErrorRecord("missing"))
            /\ Goto(c, "receive")
            /\ UNCHANGED active_connections
       ELSE /\ \E e \in ChannelErrors : RaiseOuter(c, e)
            /\ UNCHANGED out
    /\ UNCHANGED <<client_open, frame, generator, tables, received,
                   openai_client, management>>

\* db.log_activity(user_id, "message_sent", ...); the INSERT raises when
\* table users has no row for user_id (activity_logs.user_id REFERENCES users)
LogMessageSent(c) ==
    /\ pc[c] = "log_sent"
    /\ \/ /\ Raise(c, "outer_except")
          /\ UNCHANGED <<activity_logs, now>>
       \/ /\ frame[c].data.user_id \in users
          /\ activity_logs' = log_activity(activity_logs,
                    frame[c].data.user_id, "message_sent",
                    SentMetadata(frame[c].data.agent_id,
                                 frame[c].conversation_id,
                                 frame[c].data.message), Tag(c))
          /\ Goto(c, "check_access")
          /\ UNCHANGED <<frame, now>>
    /\ UNCHANGED <<client_open, generator, out, active_connections,
                   user_agent_access, conversations, messages, uuid_seq,
                   received, openai_client, management>>

\* has_access = await db.check_agent_access(user_id, agent_id): its first
\* statement, get_connection, raises when the store is unconfigured or no
\* connection can be acquired; the free-agent test and the lookup follow it
CheckAccess(c) ==
    /\ pc[c] = "check_access"
    /\ \/ Raise(c, "outer_except")
       \/ LET user_id == frame[c].data.user_id
              agent_id == frame[c].data.agent_id
              has_access == check_agent_access(user_agent_access, user_id, agent_id)
              row == \E r \in user_agent_access :
                        r.user_id = user_id /\ r.agent_id = agent_id
          IN  /\ frame' = [frame EXCEPT ![c].entitled =
                              IF row THEN "row" ELSE "norow"]
              /\ Goto(c, IF ~has_access THEN "send_denied"
                         ELSE IF frame[c].conversation_id \in {None, ""}
                         THEN "create_conversation" ELSE "save_user")
    /\ UNCHANGED <<client_open, generator, out, active_connections, tables,
                   received, openai_client, management>>

\* faulty variant: the denial is logged and the loop goes on without a record
SendAccessDeniedMutant(c) ==
    /\ pc[c] = "send_denied"
    /\ Goto(c, "receive")
    /\ UNCHANGED <<client_open, frame, generator, out, active_connections,
                   tables, received, openai_client, management>>

\* send_text({"error": "Access denied ..."}); continue
SendAccessDenied(c) ==
    /\ pc[c] = "send_denied"
    /\ IF client_open[c]
       THEN /\ Deliver(c, ErrorRecord("denied"))
            /\ Goto(c, "receive")
            /\ UNCHANGED active_connections
       ELSE /\ \E e \in ChannelErrors : RaiseOuter(c, e)
            /\ UNCHANGED out
    /\ UNCHANGED <<client_open, frame, generator, tables, received,
                   openai_client, management>>

\* faulty variant: the returned identifier is dropped
CreateConversationMutant(c) ==
    /\ pc[c] = "create_conversation"
    /\ \/ /\ Raise(c, "outer_except")
          /\ UNCHANGED <<conversations, uuid_seq>>
       \/ /\ frame[c].data.user_id \in users
          /\ uuid_seq' = uuid_seq + 1
          /\ conversations' = create_conversation(conversations,
                 Uuid(uuid_seq'), frame[c].data.user_id,
                 frame[c].data.agent_id, Tag(c))
          /\ frame' = [frame EXCEPT ![c].conversation_id = Uuid(1)]
          /\ Goto(c, "save_user")
    /\ UNCHANGED <<client_open, generator, out, active_connections,
                   user_agent_access, messages, activity_logs, now, received,
                   openai_client, management>>

\* conversation_id = await chat_manager.create_conversation(user_id, agent_id)
CreateConversation(c) ==
    /\ pc[c] = "create_conversation"
    /\ \/ /\ Raise(c, "outer_except")
          /\ UNCHANGED <<conversations, uuid_seq>>
       \/ /\ frame[c].data.user_id \in users
          /\ uuid_seq' = uuid_seq + 1
          /\ conversations' = create_conversation(conversations,
                 Uuid(uuid_seq'), frame[c].data.user_id,
                 frame[c].data.agent_id, Tag(c))
          /\ frame' = [frame EXCEPT ![c].conversation_id = Uuid(uuid_seq')]
          /\ Goto(c, "save_user")
    /\ UNCHANGED <<client_open, generator, out, active_connections,
                   user_agent_access, messages, activity_logs, now, received,
                   openai_client, management>>

\* db.save_message(conversation_id, role, content): the INSERT, then the
\* UPDATE of conversations.updated_at, each its own transaction; either may
\* raise, and the INSERT raises when no conversation has that identifier
save_message(c, role, content, succeeded, failed) ==
    \/ /\ Raise(c, failed)
       /\ UNCHANGED <<messages, now>>
    \/ /\ frame[c].conversation_id \in ConversationIds(conversations)
       /\ \E t \in Times(now) :
             /\ messages' = InsertMessage(messages, frame[c].conversation_id,
                                          role, content, t, Tag(c))
             /\ now' = t
       /\ \/ Raise(c, failed)
          \/ Goto(c, succeeded) /\ UNCHANGED frame

\* faulty variant: the user's message is not saved before generation
SaveUserMessageSkipped(c) ==
    /\ pc[c] = "save_user"
    /\ Goto(c, "stream")
    /\ UNCHANGED <<client_open, frame, generator, out, active_connections,
                   tables, received, openai_client, management>>

\* faulty variant: a failure of the save is swallowed
SaveUserMessageSwallowed(c) ==
    /\ pc[c] = "save_user"
    /\ save_message(c, "user", frame[c].data.message, "stream", "stream")
    /\ UNCHANGED <<client_open, generator, out, active_connections,
                   user_agent_access, conversations, activity_logs, uuid_seq,
                   received, openai_client, management>>

\* faulty variant: a message the store holds already is not appended again
SaveUserMessageDeduplicated(c) ==
    /\ pc[c] = "save_user"
    /\ IF \E i \in DOMAIN messages :
             /\ messages[i].role = "user"
             /\ messages[i].content = frame[c].data.message
       THEN /\ Goto(c, "stream")
            /\ UNCHANGED <<frame, messages, now>>
       ELSE save_message(c, "user", frame[c].data.message, "stream",
                         "outer_except")
    /\ UNCHANGED <<client_open, generator, out, active_connections,
                   user_agent_access, conversations, activity_logs, uuid_seq,
                   received, openai_client, management>>

\* await chat_manager.save_message(conversation_id, "user", message);
\* then get_agent, `full_response = ""` and the creation of the generator
SaveUserMessage(c) ==
    /\ pc[c] = "save_user"
    /\ save_message(c, "user", frame[c].data.message, "stream", "outer_except")
    /\ UNCHANGED <<client_open, generator, out, active_connections,
                   user_agent_access, conversations, activity_logs, uuid_seq,
                   received, openai_client, management>>

\* one iteration of the `async for`: the generator yields a fragment, the
\* handler appends it to full_response and sends it as a chunk
RelayChunk(c) ==
    /\ pc[c] = "stream"
    /\ \E r \in get_agent_response_stream(generator[c], openai_client,
                                          get_agent(frame[c].data.agent_id)) :
          /\ r.fragment # <<>>
          /\ generator' = [generator EXCEPT ![c] = r.g]
          /\ frame' = [frame EXCEPT ![c].full_response =
                           Accumulate(@, r.fragment[1])]
          /\ IF client_open[c]
             THEN /\ Deliver(c, ChunkRecord(r.fragment[1],
                                            frame[c].conversation_id))
                  /\ UNCHANGED pc
             ELSE /\ Goto(c, "inner_except")
                  /\ UNCHANGED out
    /\ UNCHANGED <<client_open, active_connections, tables, received,
                   openai_client, management>>

\* faulty variant: the complete record is sent without saving the answer
EndOfStreamMutant(c) ==
    /\ pc[c] = "stream"
    /\ \E r \in get_agent_response_stream(generator[c], openai_client,
                                          get_agent(frame[c].data.agent_id)) :
          /\ r.fragment = <<>>
          /\ generator' = [generator EXCEPT ![c] = r.g]
    /\ Goto(c, "send_complete")
    /\ UNCHANGED <<client_open, frame, out, active_connections, tables,
                   received, openai_client, management>>

\* the generator returns: the `async for` ends
EndOfStream(c) ==
    /\ pc[c] = "stream"
    /\ \E r \in get_agent_response_stream(generator[c], openai_client,
                                          get_agent(frame[c].data.agent_id)) :
          /\ r.fragment = <<>>
          /\ generator' = [generator EXCEPT ![c] = r.g]
    /\ Goto(c, "save_assistant")
    /\ UNCHANGED <<client_open, frame, out, active_connections, tables,
                   received, openai_client, management>>

\* faulty variant: a failure of the assistant save is logged and passed over
SaveAssistantMessageMutant(c) ==
    /\ pc[c] = "save_assistant"
    /\ save_message(c, "assistant", frame[c].full_response, "log_received",
                    "log_received")
    /\ UNCHANGED <<client_open, generator, out, active_connections,
                   user_agent_access, conversations, activity_logs, uuid_seq,
                   received, openai_client, management>>

\* await chat_manager.save_message(conversation_id, "assistant", full_response)
SaveAssistantMessage(c) ==
    /\ pc[c] = "save_assistant"
    /\ save_message(c, "assistant", frame[c].full_response, "log_received",
                    "inner_except")
    /\ UNCHANGED <<client_open, generator, out, active_connections,
                   user_agent_access, conversations, activity_logs, uuid_seq,
                   received, openai_client, management>>

\* db.log_activity(user_id, "message_received", ...)
LogMessageReceived(c) ==
    /\ pc[c] = "log_received"
    /\ \/ /\ Raise(c, "inner_except")
          /\ UNCHANGED <<activity_logs, now>>
       \/ /\ frame[c].data.user_id \in users
          /\ activity_logs' = log_activity(activity_logs,
                    frame[c].data.user_id, "message_received",
                    ReceivedMetadata(frame[c].data.agent_id,
                                     frame[c].conversation_id,
                                     frame[c].full_response), Tag(c))
          /\ Goto(c, "send_complete")
          /\ UNCHANGED <<frame, now>>
    /\ UNCHANGED <<client_open, generator, out, active_connections,
                   user_agent_access, conversations, messages, uuid_seq,
                   received, openai_client, management>>

\* send_text({"type": "complete", ...}); the loop body ends
SendComplete(c) ==
    /\ pc[c] = "send_complete"
    /\ IF client_open[c]
       THEN /\ Deliver(c, CompleteRecord(frame[c].conversation_id))
            /\ Goto(c, "receive")
       ELSE /\ Goto(c, "inner_except")
            /\ UNCHANGED out
    /\ UNCHANGED <<client_open, frame, generator, active_connections, tables,
                   received, openai_client, management>>

\* faulty variant: the error is logged and not sent
InnerExceptMutant(c) ==
    /\ pc[c] = "inner_except"
    /\ Goto(c, "receive")
    /\ UNCHANGED <<client_open, frame, generator, out, active_connections,
                   tables, received, openai_client, management>>

\* faulty variant: the generation error ends the handler
InnerExceptCloses(c) ==
    /\ pc[c] = "inner_except"
    /\ IF client_open[c]
       THEN /\ Deliver(c, ErrorRecord("agent_response"))
            /\ OnWebSocketDisconnect(c)
       ELSE /\ \E e \in ChannelErrors : RaiseOuter(c, e)
            /\ UNCHANGED out
    /\ UNCHANGED <<client_open, frame, generator, tables, received,
                   openai_client, management>>

\* the inner `except Exception`: send_text({"error": "Failed to get agent
\* response ..."}); the loop goes on
InnerExcept(c) ==
    /\ pc[c] = "inner_except"
    /\ IF client_open[c]
       THEN /\ Deliver(c, ErrorRecord("agent_response"))
            /\ Goto(c, "receive")
            /\ UNCHANGED active_connections
       ELSE /\ \E e \in ChannelErrors : RaiseOuter(c, e)
            /\ UNCHANGED out
    /\ UNCHANGED <<client_open, frame, generator, tables, received,
                   openai_client, management>>

\* the outer `except Exception`: send_text({"error": "Connection error ..."})
\* and websocket_manager.disconnect; a send that raises leaves the handler
\* before disconnect is called
OuterExcept(c) ==
    /\ pc[c] = "outer_except"
    /\ IF client_open[c]
       THEN /\ Deliver(c, ErrorRecord("connection"))
            /\ active_connections' = disconnect(active_connections, c)
       ELSE UNCHANGED <<out, active_connections>>
    /\ Closed(c)
    /\ UNCHANGED <<client_open, frame, generator, tables, received,
                   openai_client, management>>

\* db.grant_agent_access, as called by verify_payment for a paid agent
GrantAccess(user_id, agent_id) ==
    /\ agents[agent_id].type = "paid"
    /\ user_agent_access' = grant_agent_access(user_agent_access,
                                user_id, agent_id, "pi_1")
    /\ user_agent_access' # user_agent_access
    /\ UNCHANGED <<pc, client_open, frame, generator, out, active_connections,
                   conversations, messages, activity_logs, now, uuid_seq,
                   received, openai_client, management>>

Handler(c) ==
    \/ Connect(c)
    \/ ReceiveText(c)
    \/ ReceiveDisconnect(c)
    \/ SendMissingFields(c)
    \/ LogMessageSent(c)
    \/ CheckAccess(c)
    \/ SendAccessDenied(c)
    \/ CreateConversation(c)
    \/ SaveUserMessage(c)
    \/ RelayChunk(c)
    \/ EndOfStream(c)
    \/ SaveAssistantMessage(c)
    \/ LogMessageReceived(c)
    \/ SendComplete(c)
    \/ InnerExcept(c)
    \/ OuterExcept(c)

Next ==
    \/ \E c \in Channels : Handler(c)
    \/ \E c \in Channels : ClientDisconnect(c)
    \/ \E u \in Users, a \in DOMAIN agents : GrantAccess(u, a)

Spec == Init /\ [][Next]_vars

\* The awaits of a handler return: every step but the client's next record
Progress(c) ==
    \/ ReceiveDisconnect(c)
    \/ SendMissingFields(c)
    \/ LogMessageSent(c)
    \/ CheckAccess(c)
    \/ SendAccessDenied(c)
    \/ CreateConversation(c)
    \/ SaveUserMessage(c)
    \/ RelayChunk(c)
    \/ EndOfStream(c)
    \/ SaveAssistantMessage(c)
    \/ LogMessageReceived(c)
    \/ SendComplete(c)
    \/ InnerExcept(c)
    \/ OuterExcept(c)

FairSpec == Spec /\ \A c \in Channels : WF_vars(Progress(c))

----------------------------------------------------------------------------
(* The chat session with the place of the client's close kept in the frame *)

\* the client closes its side of the channel: ClientDisconnect, noting
\* whether the handler was in the `async for` ("stream") or not ("other")
ClientCloses(c) ==
    /\ pc[c] \notin {"idle", "closed"}
    /\ client_open[c]
    /\ client_open' = [client_open EXCEPT ![c] = FALSE]
    /\ frame' = [frame EXCEPT ![c].closed_at =
                    IF pc[c] = "stream" THEN "stream" ELSE "other"]
    /\ UNCHANGED <<pc, generator, out, active_connections, tables,
                   received, openai_client, management>>

CloseNext ==
    \/ \E c \in Channels : Handler(c)
    \/ \E c \in Channels : ClientCloses(c)
    \/ \E u \in Users, a \in DOMAIN agents : GrantAccess(u, a)

CloseSpec == Init /\ [][CloseNext]_vars

----------------------------------------------------------------------------
(* AdminManager.delete_user and cleanup_old_data (admin.py), beside a chat  *)
(* session that fills the store.  Each DELETE is a statement of its own,    *)
(* outside any transaction; a DELETE raises when a row of another table     *)
(* still refers to a row it would remove.  Table activity_log, which both   *)
(* methods delete from, is written by nothing: log_activity writes          *)
(* activity_logs.                                                           *)

\* the identifiers of the conversations of a user
ConversationsOf(user_id) ==
    {conversations[i].id : i \in {j \in DOMAIN conversations :
                                     conversations[j].user_id = user_id}}

\* some message refers to a conversation of `ids`
Referenced(ids) ==
    \E i \in DOMAIN messages : messages[i].conversation_id \in ids

\* conn = await self.database.get_connection(), for DELETE /api/admin/users/{id}
DeleteUserBegin(user_id) ==
    /\ deletion.pc = "idle"
    /\ deletion' = [pc |-> "messages", user_id |-> user_id, result |-> None]
    /\ UNCHANGED <<pc, client_open, frame, generator, out, active_connections,
                   tables, received, openai_client, agent_manager, toggle,
                   registration, users, cleanup, payment, pooling>>

\* DELETE FROM messages WHERE conversation_id IN (SELECT id FROM conversations
\* WHERE user_id = $1)
DeleteUserMessages ==
    /\ deletion.pc = "messages"
    /\ messages' = SelectSeq(messages, LAMBDA m :
                      m.conversation_id \notin ConversationsOf(deletion.user_id))
    /\ deletion' = [deletion EXCEPT !.pc = "conversations"]
    /\ UNCHANGED <<pc, client_open, frame, generator, out, active_connections,
                   user_agent_access, conversations, activity_logs, now,
                   uuid_seq, received, openai_client, agent_manager, toggle,
                   registration, users, cleanup, payment, pooling>>

\* DELETE FROM conversations WHERE user_id = $1
DeleteUserConversations ==
    /\ deletion.pc = "conversations"
    /\ IF Referenced(ConversationsOf(deletion.user_id))
       THEN /\ deletion' = [deletion EXCEPT !.pc = "done", !.result = "raised"]
            /\ UNCHANGED conversations
       ELSE /\ conversations' = SelectSeq(conversations, LAMBDA r :
                                   r.user_id # deletion.user_id)
            /\ deletion' = [deletion EXCEPT !.pc = "user_agent_access"]
    /\ UNCHANGED <<pc, client_open, frame, generator, out, active_connections,
                   user_agent_access, messages, activity_logs, now,
                   uuid_seq, received, openai_client, agent_manager, toggle,
                   registration, users, cleanup, payment, pooling>>

\* DELETE FROM user_agent_access WHERE user_id = $1
DeleteUserAccess ==
    /\ deletion.pc = "user_agent_access"
    /\ user_agent_access' = {row \in user_agent_access :
                                row.user_id # deletion.user_id}
    /\ deletion' = [deletion EXCEPT !.pc = "activity_log"]
    /\ UNCHANGED <<pc, client_open, frame, generator, out, active_connections,
                   conversations, messages, activity_logs, now,
                   uuid_seq, received, openai_client, agent_manager, toggle,
                   registration, users, cleanup, payment, pooling>>

\* DELETE FROM activity_log WHERE user_id = $1: the table has no rows
DeleteUserActivityLog ==
    /\ deletion.pc = "activity_log"
    /\ deletion' = [deletion EXCEPT !.pc = "users"]
    /\ UNCHANGED <<pc, client_open, frame, generator, out, active_connections,
                   tables, received, openai_client, agent_manager, toggle,
                   registration, users, cleanup, payment, pooling>>

\* result = await conn.execute("DELETE FROM users WHERE id = $1");
\* return result == "DELETE 1"
DeleteUserRow ==
    /\ deletion.pc = "users"
    /\ IF \/ \E i \in DOMAIN activity_logs :
                activity_logs[i].user_id = deletion.user_id
          \/ ConversationsOf(deletion.user_id) # {}
          \/ \E row \in user_agent_access : row.user_id = deletion.user_id
       THEN /\ deletion' = [deletion EXCEPT !.pc = "done", !.result = "raised"]
            /\ UNCHANGED users
       ELSE /\ users' = users \ {deletion.user_id}
            /\ deletion' = [deletion EXCEPT !.pc = "done",
                                            !.result =
                                  IF deletion.user_id \in users
                                  THEN "True" ELSE "False"]
    /\ UNCHANGED <<pc, client_open, frame, generator, out, active_connections,
                   tables, received, openai_client, agent_manager, toggle,
                   registration, cleanup, payment, pooling>>

\* old_conversations = await conn.fetch("SELECT id FROM conversations WHERE
\* created_at < $1"): the conversations older than the cutoff are the first
\* k of the table; with none the method returns
CleanupSelect(k) ==
    /\ cleanup.pc = "idle"
    /\ k \in 0..Len(conversations)
    /\ cleanup' = [pc |-> IF k = 0 THEN "done" ELSE "messages",
                   old |-> {conversations[i].id : i \in 1..k}]
    /\ UNCHANGED <<pc, client_open, frame, generator, out, active_connections,
                   tables, received, openai_client, agent_manager, toggle,
                   registration, users, deletion, payment, pooling>>

\* DELETE FROM messages WHERE conversation_id = ANY($1)
CleanupMessages ==
    /\ cleanup.pc = "messages"
    /\ messages' = SelectSeq(messages, LAMBDA m :
                      m.conversation_id \notin cleanup.old)
    /\ cleanup' = [cleanup EXCEPT !.pc = "conversations"]
    /\ UNCHANGED <<pc, client_open, frame, generator, out, active_connections,
                   user_agent_access, conversations, activity_logs, now,
                   uuid_seq, received, openai_client, agent_manager, toggle,
                   registration, users, deletion, payment, pooling>>

\* DELETE FROM conversations WHERE created_at < $1, then the DELETE FROM
\* activity_log, whose table has no rows
CleanupConversations ==
    /\ cleanup.pc = "conversations"
    /\ IF Referenced(cleanup.old)
       THEN UNCHANGED conversations
       ELSE conversations' = SelectSeq(conversations, LAMBDA r :
                                r.id \notin cleanup.old)
    /\ cleanup' = [cleanup EXCEPT !.pc = "done"]
    /\ UNCHANGED <<pc, client_open, frame, generator, out, active_connections,
                   user_agent_access, messages, activity_logs, now,
                   uuid_seq, received, openai_client, agent_manager, toggle,
                   registration, users, deletion, payment, pooling>>

\* the requests of the session that fills the store
AccountInbound ==
    {Json({"user_id", "agent_id", "message"}, "u1", "code-helper", Hi, "")}

AccountReceiveText(c) == ReceiveFrom(c, AccountInbound, MaxRequests)

AccountNext ==
    \/ \E c \in Channels :
          \/ Connect(c)
          \/ AccountReceiveText(c)
          \/ ReceiveDisconnect(c)
          \/ LogMessageSent(c)
          \/ CheckAccess(c)
          \/ CreateConversation(c)
          \/ SaveUserMessage(c)
          \/ RelayChunk(c)
          \/ EndOfStream(c)
          \/ SaveAssistantMessage(c)
          \/ LogMessageReceived(c)
          \/ SendComplete(c)
          \/ InnerExcept(c)
          \/ OuterExcept(c)
    \/ \E c \in Channels : ClientDisconnect(c)
    \/ \E u \in Users \cup {NewUser} : DeleteUserBegin(u)
    \/ DeleteUserMessages
    \/ DeleteUserConversations
    \/ DeleteUserAccess
    \/ DeleteUserActivityLog
    \/ DeleteUserRow
    \/ \E k \in 0..3 : CleanupSelect(k)
    \/ CleanupMessages
    \/ CleanupConversations

AccountSpec == Init /\ [][AccountNext]_vars

----------------------------------------------------------------------------
(* PaymentManager.verify_payment (payments.py).  The payment processor is   *)
(* outside the program: what retrieve returns, or that it raises, is an     *)
(* input of the call.                                                       *)

PaymentIntentIds == {"pi_1", "pi_2"}

\* the payment intents retrieve can return; metadata.get gives None for a
\* key the metadata lacks
Intents ==
    [status : {"succeeded", "processing"},
     user_id : Users \cup {NewUser, None},
     agent_id : DOMAIN agents \cup {None}]

\* faulty variant: the agent of the metadata is not compared
VerifiedMutant(intent, user_id, agent_id) ==
    /\ intent.status = "succeeded"
    /\ intent.user_id = user_id

\* intent.status == "succeeded" and metadata.get("user_id") == user_id and
\* metadata.get("agent_id") == agent_id
Verified(intent, user_id, agent_id) ==
    /\ intent.status = "succeeded"
    /\ intent.user_id = user_id
    /\ intent.agent_id = agent_id

\* intent = stripe.PaymentIntent.retrieve(payment_intent_id) and the two
\* tests on it, up to the await of grant_agent_access
VerifyPaymentBegin(user_id, agent_id, payment_intent_id, intent, retrieved) ==
    /\ payment.pc = "idle"
    /\ payment' =
          [pc |-> IF retrieved /\ Verified(intent, user_id, agent_id)
                  THEN "grant" ELSE "done",
           user_id |-> user_id, agent_id |-> agent_id,
           payment_intent_id |-> payment_intent_id,
           intent |-> IF retrieved THEN intent ELSE None,
           raised |-> IF retrieved THEN None ELSE "retrieve",
           result |-> IF retrieved /\ Verified(intent, user_id, agent_id)
                      THEN None ELSE "False"]
    /\ UNCHANGED <<pc, client_open, frame, generator, out, active_connections,
                   tables, received, openai_client, agent_manager, toggle,
                   registration, accounts, pooling>>

\* await self.db.grant_agent_access(user_id, agent_id, payment_intent_id);
\* return True, or the except clause: return False.  The INSERT raises for a
\* user_id that table users lacks, or when the store fails
VerifyPaymentGrant(ok) ==
    /\ payment.pc = "grant"
    /\ IF ok /\ payment.user_id \in users
       THEN /\ user_agent_access' =
                  grant_agent_access(user_agent_access, payment.user_id,
                      payment.agent_id, payment.payment_intent_id)
            /\ payment' = [payment EXCEPT !.pc = "done", !.result = "True"]
       ELSE /\ UNCHANGED user_agent_access
            /\ payment' = [payment EXCEPT !.pc = "done", !.raised = "grant",
                                          !.result = "False"]
    /\ UNCHANGED <<pc, client_open, frame, generator, out, active_connections,
                   conversations, messages, activity_logs, now, uuid_seq,
                   received, openai_client, agent_manager, toggle,
                   registration, accounts, pooling>>

\* POST /api/verify-payment has answered; the next call can come
VerifyPaymentReturn ==
    /\ payment.pc = "done"
    /\ payment' = NoPayment
    /\ UNCHANGED <<pc, client_open, frame, generator, out, active_connections,
                   tables, received, openai_client, agent_manager, toggle,
                   registration, accounts, pooling>>

PaymentNext ==
    \/ \E u \in Users \cup {NewUser}, a \in DOMAIN agents,
          id \in PaymentIntentIds, intent \in Intents, retrieved \in BOOLEAN :
          VerifyPaymentBegin(u, a, id, intent, retrieved)
    \/ \E ok \in BOOLEAN : VerifyPaymentGrant(ok)
    \/ VerifyPaymentReturn

PaymentSpec == Init /\ [][PaymentNext]_vars

----------------------------------------------------------------------------
(* Database.get_connection and release_connection (database.py), called by  *)
(* the methods of one Database object that run concurrently.  db_pool is    *)
(* self.pool; a pool is named after the caller whose create_pool made it.   *)

PoolUnchanged ==
    UNCHANGED <<pc, client_open, frame, generator, out, active_connections,
                tables, received, openai_client, agent_manager, toggle,
                registration, accounts, payment>>

\* `if not self.pool:` and the call of asyncpg.create_pool, up to its await
GetConnection(k) ==
    /\ db_calls[k].pc = "idle"
    /\ db_calls' = [db_calls EXCEPT ![k].pc =
          IF db_pool = None THEN "create_pool" ELSE "acquire",
                                    ![k].conn = None,
                                    ![k].released = None]
    /\ UNCHANGED db_pool
    /\ PoolUnchanged

\* self.pool = <the pool create_pool returned>
CreatePool(k) ==
    /\ db_calls[k].pc = "create_pool"
    /\ db_pool' = k
    /\ db_calls' = [db_calls EXCEPT ![k].pc = "acquire", ![k].created = k]
    /\ PoolUnchanged

\* return await self.pool.acquire()
Acquire(k) ==
    /\ db_calls[k].pc = "acquire"
    /\ db_calls' = [db_calls EXCEPT ![k].pc = "held", ![k].conn = db_pool]
    /\ UNCHANGED db_pool
    /\ PoolUnchanged

\* await self.pool.release(conn): a pool raises InterfaceError for a
\* connection that is not one of its own
ReleaseConnection(k) ==
    /\ db_calls[k].pc = "held"
    /\ db_calls' = [db_calls EXCEPT ![k].pc = "done", ![k].released =
          IF db_calls[k].conn = db_pool THEN "ok" ELSE "raised"]
    /\ UNCHANGED db_pool
    /\ PoolUnchanged

\* the Database method has ended; the caller's next method can start
CallReturns(k) ==
    /\ db_calls[k].pc = "done"
    /\ db_calls' = [db_calls EXCEPT ![k].pc = "idle"]
    /\ UNCHANGED db_pool
    /\ PoolUnchanged

PoolNext ==
    \E k \in Callers :
        \/ GetConnection(k)
        \/ CreatePool(k)
        \/ Acquire(k)
        \/ ReleaseConnection(k)
        \/ CallReturns(k)

PoolSpec == Init /\ [][PoolNext]_vars

----------------------------------------------------------------------------
(* The request loop over several records: the same handler, with a client  *)
(* that sends one record more than that of Spec, each one of four.         *)

LoopInbound ==
    {Json({"user_id", "agent_id", "message"}, "u1", "code-helper", Hi, ""),
     Json({"user_id", "agent_id", "message"}, "u1", "data-scientist", Hi, ""),
     Json({"user_id", "agent_id"}, "u1", "data-scientist", <<>>, ""),
     Malformed}

LoopReceiveText(c) == ReceiveFrom(c, LoopInbound, MaxRequests + 1)

LoopNext ==
    \/ \E c \in Channels :
          \/ Connect(c)
          \/ LoopReceiveText(c)
          \/ ReceiveDisconnect(c)
          \/ SendMissingFields(c)
          \/ LogMessageSent(c)
          \/ CheckAccess(c)
          \/ SendAccessDenied(c)
          \/ CreateConversation(c)
          \/ SaveUserMessage(c)
          \/ RelayChunk(c)
          \/ EndOfStream(c)
          \/ SaveAssistantMessage(c)
          \/ LogMessageReceived(c)
          \/ SendComplete(c)
          \/ InnerExcept(c)
          \/ OuterExcept(c)
    \/ \E c \in Channels : ClientDisconnect(c)

\* no record of LoopInbound names a conversation: the store starts empty
LoopInit == Init /\ conversations = <<>>

LoopSpec == LoopInit /\ [][LoopNext]_vars

----------------------------------------------------------------------------
(* The admin endpoints on the agent catalog (main.py).  None of them awaits  *)
(* between reading and writing agent_manager.agents.                         *)

\* the request bodies of create_agent: a name and a type
AgentNames == {"Code-Helper", "Tutor"}
AgentTypes == {"free", "paid"}

\* name.lower().replace(" ", "_").replace("-", "_"), on AgentNames
AgentId(name) ==
    CASE name = "Code-Helper" -> "code_helper"
      [] name = "Tutor" -> "tutor"

\* agent.get("active", True)
Active(agent) == IF "active" \in DOMAIN agent THEN agent.active ELSE TRUE

\* the management endpoints leave the chat sessions and the store alone
SessionsUnchanged ==
    UNCHANGED <<pc, client_open, frame, generator, out, active_connections,
                conversations, messages, activity_logs, now, uuid_seq,
                received, openai_client>>

\* POST /api/admin/agents: agent_manager.agents[agent_id] = new_agent
create_agent(name, type) ==
    /\ agent_manager' =
          [a \in DOMAIN agent_manager \cup {AgentId(name)} |->
              IF a = AgentId(name)
              THEN [id |-> a, type |-> type, active |-> TRUE]
              ELSE agent_manager[a]]
    /\ SessionsUnchanged
    /\ UNCHANGED <<user_agent_access, toggle, registration, accounts,
                   payment, pooling>>

\* PUT /api/admin/agents/{agent_id}: the loop iterates over the keys of the
\* dict, so agent["id"] raises TypeError on the first key (and the 404 is
\* raised for an empty dict); `except Exception` answers 500 either way and
\* the catalog is as it was
update_agent(agent_id, type) ==
    /\ agent_manager' = agent_manager
    /\ SessionsUnchanged
    /\ UNCHANGED <<user_agent_access, toggle, registration, accounts,
                   payment, pooling>>

\* POST /api/admin/agents/{agent_id}/toggle-status
toggle_agent_status(agent_id) ==
    /\ agent_id \in DOMAIN agent_manager
    /\ agent_manager' = [agent_manager EXCEPT ![agent_id] =
          [id |-> @.id, type |-> @.type, active |-> ~Active(@)]]
    /\ SessionsUnchanged
    /\ UNCHANGED <<user_agent_access, toggle, registration, accounts,
                   payment, pooling>>

\* DELETE /api/admin/agents/{agent_id}: del agent_manager.agents[agent_id]
delete_agent(agent_id) ==
    /\ agent_id \in DOMAIN agent_manager
    /\ agent_manager' = [a \in DOMAIN agent_manager \ {agent_id} |->
                            agent_manager[a]]
    /\ SessionsUnchanged
    /\ UNCHANGED <<user_agent_access, toggle, registration, accounts,
                   payment, pooling>>

\* the agent ids an admin request can name
AgentIds == DOMAIN agents \cup {AgentId(name) : name \in AgentNames}

CatalogNext ==
    \/ \E name \in AgentNames, type \in AgentTypes : create_agent(name, type)
    \/ \E a \in AgentIds, type \in AgentTypes : update_agent(a, type)
    \/ \E a \in AgentIds : toggle_agent_status(a)
    \/ \E a \in AgentIds : delete_agent(a)
    \/ \E u \in Users, a \in DOMAIN agents : GrantAccess(u, a)

CatalogSpec == Init /\ [][CatalogNext]_vars

----------------------------------------------------------------------------
(* The writers of user_agent_access: verify_payment (GrantAccess above),     *)
(* AuthManager.register and AdminManager.toggle_user_agent_access.  Each     *)
(* statement is one step; the table's UNIQUE(user_id, agent_id) makes an     *)
(* INSERT without ON CONFLICT raise when the pair has a row.                 *)

\* the list `free_agents` of AuthManager.register
default_agents == <<"creative-writer", "code-helper", "research-assistant">>

\* `registration` counts the statements register has executed (0: none;
\* 1: create_user; 2..4: the default grants)
RegisteredUsers == users

\* user = await self.db.create_user(...)
CreateUser ==
    /\ registration = 0
    /\ registration' = 1
    /\ users' = users \cup {NewUser}
    /\ SessionsUnchanged
    /\ UNCHANGED <<user_agent_access, agent_manager, toggle, deletion,
                   cleanup, payment, pooling>>

\* one iteration of `for agent_id in free_agents: grant_agent_access(...)`
RegisterGrant ==
    /\ registration \in 1..Len(default_agents)
    /\ user_agent_access' = grant_agent_access(user_agent_access, NewUser,
                                default_agents[registration], None)
    /\ registration' = registration + 1
    /\ SessionsUnchanged
    /\ UNCHANGED <<agent_manager, toggle, accounts, payment, pooling>>

\* existing = await conn.fetchrow(check_query, user_id, agent_id)
ToggleSelect(ad, user_id, agent_id) ==
    /\ toggle[ad].pc = "idle"
    /\ user_id \in RegisteredUsers
    /\ toggle' = [toggle EXCEPT ![ad] =
          [pc |-> "selected", user_id |-> user_id, agent_id |-> agent_id,
           existing |-> \E row \in user_agent_access :
                           row.user_id = user_id /\ row.agent_id = agent_id,
           result |-> None]]
    /\ SessionsUnchanged
    /\ UNCHANGED <<user_agent_access, agent_manager, registration, accounts,
                   payment, pooling>>

\* `if existing:` the DELETE, `else:` the plain INSERT
ToggleWrite(ad) ==
    /\ toggle[ad].pc = "selected"
    /\ LET t == toggle[ad]
           rows == {row \in user_agent_access :
                       row.user_id = t.user_id /\ row.agent_id = t.agent_id}
       IN  IF t.existing
           THEN /\ user_agent_access' = user_agent_access \ rows
                /\ toggle' = [toggle EXCEPT ![ad].pc = "done",
                                            ![ad].result = "revoked"]
           ELSE IF rows # {}
           THEN /\ UNCHANGED user_agent_access
                /\ toggle' = [toggle EXCEPT ![ad].pc = "done",
                                            ![ad].result = "raised"]
           ELSE /\ user_agent_access' = user_agent_access \cup
                      {[user_id |-> t.user_id, agent_id |-> t.agent_id,
                        payment_intent_id |-> None]}
                /\ toggle' = [toggle EXCEPT ![ad].pc = "done",
                                            ![ad].result = "granted"]
    /\ SessionsUnchanged
    /\ UNCHANGED <<agent_manager, registration, accounts, payment, pooling>>

\* the rows a SELECT without ORDER BY returns, in one of its orders
RECURSIVE Fetched(_)
Fetched(ids) ==
    IF ids = {} THEN <<>>
    ELSE LET a == CHOOSE x \in ids : TRUE
         IN  <<a>> \o Fetched(ids \ {a})

\* accessible_agents = free_agents + [the agent_id of every row of the user]
get_user_accessible_agents(table, user_id) ==
    default_agents \o
        Fetched({row.agent_id : row \in {r \in table : r.user_id = user_id}})

EntitlementNext ==
    \/ CreateUser
    \/ RegisterGrant
    \/ \E ad \in Admins, u \in Users \cup {NewUser}, a \in DOMAIN agents :
          ToggleSelect(ad, u, a)
    \/ \E ad \in Admins : ToggleWrite(ad)
    \/ \E u \in Users, a \in DOMAIN agents : GrantAccess(u, a)

EntitlementSpec == Init /\ [][EntitlementNext]_vars

----------------------------------------------------------------------------
(* Vocabulary of the properties *)

\* channel c has read a record; frame[c] and out[c] are about that request
Handling(c) == frame[c].n > 0

\* the handler has left the body of the loop for the request
Finished(c) == Handling(c) /\ pc[c] \in {"receive", "closed"}

\* the positions of the records of one type in out[c]
RecordsOf(c, type) == {i \in DOMAIN out[c] : out[c][i].type = type}

\* the rows of a table written by the request c is handling
RowsOf(table, c) == {i \in DOMAIN table : table[i].by = Tag(c)}

MessagesOf(c, role) == {i \in RowsOf(messages, c) : messages[i].role = role}

\* user_id, agent_id or message is absent or empty
Deficiency(message_data) ==
    /\ message_data.kind = "json"
    /\ \/ "user_id" \notin message_data.has \/ message_data.user_id = ""
       \/ "agent_id" \notin message_data.has \/ message_data.agent_id = ""
       \/ "message" \notin message_data.has \/ Len(message_data.message) = 0

\* a well-formed request to a paid agent, found without an entitlement row
DeniedCase(c) ==
    /\ Handling(c)
    /\ frame[c].data.kind = "json"
    /\ ~Deficiency(frame[c].data)
    /\ frame[c].data.agent_id \in DOMAIN agents
    /\ agents[frame[c].data.agent_id].type = "paid"
    /\ frame[c].entitled = "norow"

\* the contents of the chunk records of out[c], in order
ChunkContents(c) ==
    LET chunks == SelectSeq(out[c], LAMBDA r : r.type = "chunk")
    IN  [i \in DOMAIN chunks |-> chunks[i].content]

RECURSIVE Concat(_)
Concat(texts) ==
    IF texts = <<>> THEN <<>> ELSE Head(texts) \o Concat(Tail(texts))

UserMessageStored(c) ==
    \E i \in MessagesOf(c, "user") :
        /\ messages[i].conversation_id = frame[c].conversation_id
        /\ messages[i].content = frame[c].data.message

AssistantMessageStored(c) ==
    \E i \in MessagesOf(c, "assistant") :
        messages[i].conversation_id = frame[c].conversation_id

----------------------------------------------------------------------------
(* Properties *)

\* C1: a request whose user_id, agent_id or message is absent or empty gets
\* the one "missing fields" error record and writes no conversation, no
\* message and no activity record.
C1_MissingFieldsTouchNothing ==
    \A c \in Channels :
        Handling(c) /\ Deficiency(frame[c].data) =>
            /\ RowsOf(conversations, c) = {}
            /\ RowsOf(messages, c) = {}
            /\ RowsOf(activity_logs, c) = {}
            /\ Len(out[c]) <= 1
            /\ \A i \in DOMAIN out[c] : out[c][i] = ErrorRecord("missing")
            /\ Finished(c) /\ client_open[c] => Len(out[c]) = 1

C1_Witness ==
    \E c \in Channels :
        /\ Deficiency(frame[c].data)
        /\ "message" \in frame[c].data.has
        /\ pc[c] = "receive"
        /\ out[c] = <<ErrorRecord("missing")>>

\* C2: a well-formed request to a paid agent whose user has no entitlement
\* row gets the "access denied" error record and writes no conversation and
\* no message.
C2_DeniedLeavesConversationStore ==
    \A c \in Channels :
        DeniedCase(c) =>
            /\ RowsOf(conversations, c) = {}
            /\ RowsOf(messages, c) = {}
            /\ Len(out[c]) <= 1
            /\ \A i \in DOMAIN out[c] : out[c][i] = ErrorRecord("denied")
            /\ Finished(c) /\ client_open[c] => Len(out[c]) = 1

C2_Witness ==
    \E c \in Channels :
        /\ DeniedCase(c)
        /\ pc[c] = "receive"
        /\ out[c] = <<ErrorRecord("denied")>>

\* C3: for one request the client never receives both a complete record and
\* an error record, and never more than one error record.
C3_NeverCompleteAndError ==
    \A c \in Channels :
        /\ Cardinality(RecordsOf(c, "error")) <= 1
        /\ RecordsOf(c, "complete") = {} \/ RecordsOf(c, "error") = {}

C3_Witness ==
    \E c \in Channels :
        /\ RecordsOf(c, "chunk") # {}
        /\ RecordsOf(c, "error") # {}
        /\ AssistantMessageStored(c)

\* C4: under FairSpec, a request that has been read leads to a complete or
\* an error record, unless the client closes the channel.
C4_EveryRequestAnswered ==
    \A c \in Channels :
        (pc[c] \notin {"idle", "receive", "closed"})
            ~> (\/ RecordsOf(c, "complete") # {}
                \/ RecordsOf(c, "error") # {}
                \/ ~client_open[c])

C4_Witness ==
    \E c \in Channels :
        /\ pc[c] = "receive"
        /\ client_open[c]
        /\ generator[c].raised >= 0
        /\ RecordsOf(c, "error") # {}

\* C5: when a request ends with a complete record, the chunk records carry
\* the generator's fragments, one each and in order, and their concatenation
\* is the content of the one assistant message the request stored.
C5_ChunksEqualStoredAnswer ==
    \A c \in Channels :
        RecordsOf(c, "complete") # {} =>
            /\ ChunkContents(c) = generator[c].yielded
            /\ Cardinality(MessagesOf(c, "assistant")) = 1
            /\ \A i \in MessagesOf(c, "assistant") :
                  /\ messages[i].content = Concat(ChunkContents(c))
                  /\ messages[i].conversation_id = frame[c].conversation_id

C5_Witness ==
    \E c \in Channels :
        /\ RecordsOf(c, "complete") # {}
        /\ Len(generator[c].yielded) >= 2
        /\ generator[c].raised = -1

\* C6: once the Response Generator has been created for a request, the
\* user's message is in the conversation, also after generation has failed.
C6_UserMessageBeforeGeneration ==
    \A c \in Channels :
        Handling(c) /\ (pc[c] = "stream" \/ generator[c].state # "new")
            => UserMessageStored(c)

C6_Witness ==
    \E c \in Channels :
        /\ generator[c].raised >= 0
        /\ Finished(c)
        /\ UserMessageStored(c)

\* C7: when the backend raises after k fragments, the client gets exactly k
\* chunk records, then one error record and no complete record, and the
\* request stores no assistant message.
C7_BackendErrorEndsInError ==
    \A c \in Channels :
        Handling(c) /\ generator[c].raised >= 0 =>
            /\ Cardinality(RecordsOf(c, "chunk")) <= generator[c].raised
            /\ RecordsOf(c, "complete") = {}
            /\ MessagesOf(c, "assistant") = {}
            /\ Finished(c) /\ client_open[c] =>
                  /\ Cardinality(RecordsOf(c, "chunk")) = generator[c].raised
                  /\ Cardinality(RecordsOf(c, "error")) = 1
                  /\ UserMessageStored(c)

\* C8: a request that got an error record has stored no assistant message.
C8_NoAssistantMessageBehindError ==
    \A c \in Channels :
        RecordsOf(c, "error") # {} => MessagesOf(c, "assistant") = {}

\* C9: a request gets at most one complete record, exactly one when it ends
\* without an error; the complete record is sent when the assistant message
\* is stored, and it is the last record of the request.
C9_CompleteOnceAndLast ==
    \A c \in Channels :
        /\ Cardinality(RecordsOf(c, "complete")) <= 1
        /\ pc[c] = "send_complete" => AssistantMessageStored(c)
        /\ RecordsOf(c, "complete") # {} =>
              /\ out[c][Len(out[c])].type = "complete"
              /\ AssistantMessageStored(c)
        /\ Handling(c) /\ pc[c] = "receive" /\ RecordsOf(c, "error") = {} =>
              Cardinality(RecordsOf(c, "complete")) = 1

C9_Witness ==
    \E c \in Channels :
        /\ pc[c] = "receive"
        /\ RecordsOf(c, "chunk") # {}
        /\ RecordsOf(c, "complete") = {Len(out[c])}

\* C10: every assistant message in the store comes after a user message of
\* the same request in the same conversation, whose created_at is not
\* later; and a request stores at most one assistant message.
C10_AssistantFollowsUser ==
    \A i \in DOMAIN messages :
        messages[i].role = "assistant" =>
            /\ \E j \in 1..(i - 1) :
                  /\ messages[j].role = "user"
                  /\ messages[j].by = messages[i].by
                  /\ messages[j].conversation_id = messages[i].conversation_id
                  /\ messages[j].created_at <= messages[i].created_at
            /\ \A k \in DOMAIN messages :
                  messages[k].role = "assistant" /\ messages[k].by = messages[i].by
                      => k = i

C10_Witness ==
    \E i, j \in DOMAIN messages :
        /\ j < i
        /\ messages[i].role = "assistant"
        /\ messages[j].role = "user"
        /\ messages[j].by = messages[i].by
        /\ messages[j].created_at < messages[i].created_at

\* C11: a log_activity call that raises does not abort the request: after a
\* failed send event the request is at the entitlement check or past it, and
\* after a failed receive event a request that ends with the channel open
\* has got its complete record.
C11_RecordingFailureDoesNotAbort ==
    \A c \in Channels :
        /\ frame[c].raised_at = "log_sent" =>
              pc[c] = "check_access" \/ frame[c].entitled # "unchecked"
        /\ frame[c].raised_at = "log_received" /\ Finished(c) /\ client_open[c] =>
              RecordsOf(c, "complete") # {}

\* the activity rows of one action written by the request c is handling
EventsOf(c, action) ==
    {i \in RowsOf(activity_logs, c) : activity_logs[i].action = action}

\* C12: a request that got the "access denied" error record has written an
\* activity row for its user that records the denial, that is, a row that is
\* neither the send event nor the receive event.
C12_DenialEventRecorded ==
    \A c \in Channels :
        DeniedCase(c) /\ out[c] = <<ErrorRecord("denied")>> =>
            \E i \in RowsOf(activity_logs, c) :
                /\ activity_logs[i].user_id = frame[c].data.user_id
                /\ activity_logs[i].action \notin {"message_sent", "message_received"}

\* C13: a request rejected for want of an entitlement has written no
\* message_sent activity row.
C13_DeniedRequestLogsNoSend ==
    \A c \in Channels :
        DeniedCase(c) => EventsOf(c, "message_sent") = {}

\* C14: a request that ends with a complete record has written exactly one
\* message_sent row and exactly one message_received row for its user, the
\* first before the second, and the response length of the second is the
\* length of the assistant message the request stored.
C14_OneSendOneReceiveEvent ==
    \A c \in Channels :
        RecordsOf(c, "complete") # {} =>
            /\ Cardinality(EventsOf(c, "message_sent")) = 1
            /\ Cardinality(EventsOf(c, "message_received")) = 1
            /\ \A i \in EventsOf(c, "message_sent"),
                  j \in EventsOf(c, "message_received") :
                  /\ i < j
                  /\ activity_logs[i].user_id = frame[c].data.user_id
                  /\ activity_logs[j].user_id = frame[c].data.user_id
                  /\ MessagesOf(c, "assistant") # {}
                  /\ \A k \in MessagesOf(c, "assistant") :
                        activity_logs[j].metadata.length = Len(messages[k].content)

C14_Witness ==
    \E c \in Channels :
        /\ RecordsOf(c, "complete") # {}
        /\ \E j \in EventsOf(c, "message_received") :
              activity_logs[j].metadata.length >= 2

\* C15: the entitlement check of a free agent makes no use of the store, so
\* it never raises: a request whose check_agent_access call raised is not a
\* request for an agent of the free-agent set.
C15_FreeAgentsNeedNoStore ==
    \A c \in Channels :
        frame[c].raised_at = "check_access" =>
            frame[c].data.agent_id \notin free_agents

\* the catalog agents of one type
AgentsOfType(catalog, type) ==
    {a \in DOMAIN catalog : catalog[a].type = type}

HasRow(user_id, agent_id) ==
    \E row \in user_agent_access :
        row.user_id = user_id /\ row.agent_id = agent_id

\* C16: whatever the admin endpoints have done to the catalog, its agents of
\* type free are those it started with, each of them passes the entitlement
\* check for every user, and an agent of type paid passes it exactly for
\* the users that hold an entitlement row.
C16_FreeSetFixed ==
    /\ AgentsOfType(agent_manager, "free") = AgentsOfType(agents, "free")
    /\ \A u \in Users :
          /\ \A a \in AgentsOfType(agent_manager, "free") :
                check_agent_access(user_agent_access, u, a)
          /\ \A a \in AgentsOfType(agent_manager, "paid") :
                check_agent_access(user_agent_access, u, a) <=> HasRow(u, a)

\* C17: whatever grants, registration grants and admin toggles have run, in
\* any interleaving, user_agent_access holds at most one row for a user and
\* an agent, and no toggle that set out to grant has failed on a pair that
\* was granted in the meantime.
C17_OneRowPerPairAndGrantSucceeds ==
    /\ \A r1, r2 \in user_agent_access :
          r1.user_id = r2.user_id /\ r1.agent_id = r2.agent_id => r1 = r2
    /\ \A ad \in Admins : toggle[ad].result # "raised"

\* the request of c names a conversation
Given(c) == Get(frame[c].data, "conversation_id") \notin {None, ""}

\* C18: one conversation identifier serves the whole request: every message
\* the request stores and every chunk and complete record it sends carry
\* frame[c].conversation_id; that is the client's identifier when one is
\* given, and then the request creates no conversation; otherwise it is the
\* identifier of the one conversation the request created for its user and
\* agent, an identifier no other conversation has.
C18_OneConversationPerRequest ==
    \A c \in Channels :
        Handling(c) /\ frame[c].data.kind = "json" =>
            /\ \A i \in RowsOf(messages, c) :
                  messages[i].conversation_id = frame[c].conversation_id
            /\ \A i \in RecordsOf(c, "chunk") \cup RecordsOf(c, "complete") :
                  out[c][i].conversation_id = frame[c].conversation_id
            /\ Given(c) =>
                  /\ frame[c].conversation_id = frame[c].data.conversation_id
                  /\ RowsOf(conversations, c) = {}
            /\ ~Given(c) =>
                  /\ Cardinality(RowsOf(conversations, c)) <= 1
                  /\ \A i \in RowsOf(conversations, c) :
                        /\ conversations[i].id = frame[c].conversation_id
                        /\ conversations[i].user_id = frame[c].data.user_id
                        /\ conversations[i].agent_id = frame[c].data.agent_id
                        /\ \A j \in DOMAIN conversations :
                              conversations[j].id = conversations[i].id => j = i
                  /\ RowsOf(messages, c) # {} \/ RecordsOf(c, "chunk") # {}
                        \/ RecordsOf(c, "complete") # {}
                        => Cardinality(RowsOf(conversations, c)) = 1

\* a request without identifier ran to its complete record in a store that
\* held a conversation already
C18_Witness ==
    \E c \in Channels :
        /\ RecordsOf(c, "complete") # {}
        /\ RecordsOf(c, "chunk") # {}
        /\ ~Given(c)
        /\ Len(conversations) = 2
        /\ Cardinality(RowsOf(conversations, c)) = 1

\* C19: without a backend client the generator yields the explanatory text
\* and nothing else: the request relays at most the one chunk record that
\* carries it, and a request that ends without an error record has got that
\* chunk record, then the complete record, and has stored the explanatory
\* text as its one assistant message.
C19_UnconfiguredGeneratorExplains ==
    \A c \in Channels :
        Handling(c) /\ ~openai_client =>
            /\ generator[c].state # "new" =>
                  generator[c].yielded = <<UnavailableText>>
            /\ \A i \in RecordsOf(c, "chunk") :
                  /\ i = 1
                  /\ out[c][i] = ChunkRecord(UnavailableText,
                                             frame[c].conversation_id)
            /\ \A i \in MessagesOf(c, "assistant") :
                  messages[i].content = UnavailableText
            /\ (\/ RecordsOf(c, "complete") # {}
                \/ /\ pc[c] = "receive"
                   /\ frame[c].entitled # "unchecked"
                   /\ ~DeniedCase(c)
                   /\ RecordsOf(c, "error") = {})
               => /\ out[c] = <<ChunkRecord(UnavailableText,
                                            frame[c].conversation_id),
                                CompleteRecord(frame[c].conversation_id)>>
                  /\ Cardinality(MessagesOf(c, "assistant")) = 1

C19_Witness ==
    \E c \in Channels :
        /\ ~openai_client
        /\ pc[c] = "receive"
        /\ Len(out[c]) = 2
        /\ out[c][2].type = "complete"
        /\ \E i \in MessagesOf(c, "assistant") :
              messages[i].content = UnavailableText

\* the Conversation Store writes of a request
StoreWrites == {"create_conversation", "save_user", "save_assistant"}

\* C20: when create_conversation or a save_message of a request has raised,
\* the request is over: the handler is in an `except` block or past it, no
\* chunk is relayed after the failure, no complete record is sent, the write
\* is not made again, and a client whose channel is open gets one error
\* record as the last record of the request.
C20_StoreFailureAbortsRequest ==
    \A c \in Channels :
        frame[c].raised_at \in StoreWrites =>
            /\ pc[c] \in {"outer_except", "inner_except", "receive", "closed"}
            /\ RecordsOf(c, "complete") = {}
            /\ frame[c].raised_at # "save_assistant" =>
                  /\ RecordsOf(c, "chunk") = {}
                  /\ generator[c] = NewGenerator
                  /\ MessagesOf(c, "assistant") = {}
            /\ frame[c].raised_at = "create_conversation" =>
                  RowsOf(conversations, c) = {} /\ RowsOf(messages, c) = {}
            /\ Cardinality(MessagesOf(c, "user")) <= 1
            /\ Cardinality(MessagesOf(c, "assistant")) <= 1
            /\ ChunkContents(c) = generator[c].yielded
            /\ Cardinality(RecordsOf(c, "error")) <= 1
            /\ Finished(c) /\ client_open[c] =>
                  RecordsOf(c, "error") = {Len(out[c])}

C20_Witness ==
    \E c \in Channels :
        /\ frame[c].raised_at = "save_assistant"
        /\ pc[c] = "receive"
        /\ RecordsOf(c, "chunk") # {}
        /\ RecordsOf(c, "error") = {Len(out[c])}

\* the last record sent for the request of c is a complete or an error record
Terminated(c) ==
    /\ out[c] # <<>>
    /\ out[c][Len(out[c])].type \in {"complete", "error"}

\* C21: the handler of a channel reads an inbound record only at the head of
\* its loop and, after the first, only when the request before it has got its
\* terminal record; the records sent from then on are those of the request
\* just read.
C21_OneRequestInFlight ==
    [][\A c \in Channels :
          frame'[c].n # frame[c].n =>
              /\ pc[c] = "receive"
              /\ frame[c].n > 0 => Terminated(c)
              /\ frame'[c].n = frame[c].n + 1
              /\ out'[c] = <<>>]_vars

C21_Witness ==
    \E c \in Channels :
        /\ frame[c].n = 2
        /\ RecordsOf(c, "chunk") # {}
        /\ \E i \in DOMAIN messages : messages[i].by = <<c, 1>>

\* C22: a channel whose handler has ended is not in the registry.
C22_ClosedChannelUnregistered ==
    \A c \in Channels : pc[c] = "closed" => c \notin active_connections

\* C23: when the client has closed the channel while the handler was in the
\* `async for`, the request relays no chunk after that, stores no assistant
\* message, and its user message stays in the store.
C23_CloseDuringGenerationDropsAnswer ==
    \A c \in Channels :
        frame[c].closed_at = "stream" =>
            /\ UserMessageStored(c)
            /\ Len(ChunkContents(c)) <= Len(generator[c].yielded)
            /\ RecordsOf(c, "complete") = {}
            /\ MessagesOf(c, "assistant") = {}

\* the rows of a table written by the n-th request of channel c
RowsBy(table, c, n) == {i \in DOMAIN table : table[i].by = <<c, n>>}

\* the request c is handling is its second, and its first was the same
\* record, was entitled and appended its user message
SameAsFirst(c) ==
    /\ frame[c].n = 2
    /\ \E i \in RowsBy(activity_logs, c, 1) :
          /\ activity_logs[i].action = "message_sent"
          /\ activity_logs[i].user_id = frame[c].data.user_id
          /\ activity_logs[i].metadata =
                SentMetadata(frame[c].data.agent_id,
                             Get(frame[c].data, "conversation_id"),
                             frame[c].data.message)
    /\ \E j \in RowsBy(messages, c, 1) :
          /\ messages[j].role = "user"
          /\ messages[j].content = frame[c].data.message

\* the first request of c ran to its end: it logged its receive event
FirstSucceeded(c) ==
    \E i \in RowsBy(activity_logs, c, 1) :
        activity_logs[i].action = "message_received"

\* C25: when a channel gets the same entitled request a second time, the
\* second request appends its own user message once its save has returned,
\* and, when both requests succeed, its own assistant message: the store then
\* holds two of each.
C25_NoDeduplication ==
    \A c \in Channels :
        SameAsFirst(c) =>
            /\ (pc[c] \in {"stream", "save_assistant", "log_received",
                           "send_complete"}
                \/ RecordsOf(c, "complete") # {})
               => Cardinality({i \in RowsBy(messages, c, 1) \cup RowsBy(messages, c, 2) :
                                 /\ messages[i].role = "user"
                                 /\ messages[i].content = frame[c].data.message}) = 2
            /\ FirstSucceeded(c) /\ RecordsOf(c, "complete") # {}
               => Cardinality({i \in RowsBy(messages, c, 1) \cup RowsBy(messages, c, 2) :
                                 messages[i].role = "assistant"}) = 2

C25_Witness ==
    \E c \in Channels :
        /\ SameAsFirst(c)
        /\ FirstSucceeded(c)
        /\ RecordsOf(c, "complete") # {}
        /\ Len(messages) = 4

\* the errors after which the loop goes on: validation, denial, generation
Recoverable == {ErrorRecord("missing"), ErrorRecord("denied"),
                ErrorRecord("agent_response")}

\* the store calls that precede the generation step
BeforeGeneration == {"log_sent", "check_access", "create_conversation",
                     "save_user"}

\* C28: after a validation, access-denied or generation error record the
\* handler is back at receive_text with its channel registered, unless the
\* client has closed; and a handler that has ended with its client's channel
\* open read a malformed record or had a store call before the generation
\* step raise, and sent the connection error.
C28_LoopSurvivesRequestErrors ==
    \A c \in Channels :
        /\ Terminated(c) /\ out[c][Len(out[c])] \in Recoverable /\ client_open[c]
              => pc[c] = "receive" /\ c \in active_connections
        /\ pc[c] = "closed" /\ client_open[c] =>
              /\ \/ frame[c].data.kind = "malformed"
                 \/ frame[c].raised_at \in BeforeGeneration
              /\ Terminated(c)
              /\ out[c][Len(out[c])] = ErrorRecord("connection")

\* a denied request, then one that ran to its complete record
C28_Witness ==
    \E c \in Channels :
        /\ frame[c].n = 2
        /\ RecordsOf(c, "complete") # {}
        /\ RowsBy(activity_logs, c, 1) # {}
        /\ RowsBy(messages, c, 1) = {}

\* C24: a step that removes a row from conversations is a step of
\* cleanup_old_data.
C24_OnlyCleanupDeletesConversations ==
    [][ConversationIds(conversations) \ ConversationIds(conversations') # {}
          => cleanup' # cleanup]_vars

\* the user has a row in one of the tables that refer to users
HasData(user_id) ==
    \/ \E i \in DOMAIN activity_logs : activity_logs[i].user_id = user_id
    \/ \E i \in DOMAIN conversations : conversations[i].user_id = user_id
    \/ \E row \in user_agent_access : row.user_id = user_id

\* C27: when delete_user ends for a user that table users holds, it returns
\* true, and from then on neither the user nor any message, conversation,
\* entitlement or activity record of the user is in the store.
C27_DeleteUserDeletesAll ==
    \A u \in Users :
        deletion.pc = "done" /\ deletion.user_id = u =>
            /\ deletion.result = "True"
            /\ u \notin users
            /\ ~HasData(u)

C29_AccessibleAgentsListedOnce ==
    \A u \in users :
        LET listed == get_user_accessible_agents(user_agent_access, u)
        IN  \A i, j \in DOMAIN listed : listed[i] = listed[j] => i = j

\* C30: at most one pool has been created, and no connection has been
\* released to a pool other than the one it was acquired from.
C30_OnePoolAndReleaseToOwnPool ==
    /\ Cardinality({k \in Callers : db_calls[k].created # None}) <= 1
    /\ \A k \in Callers : db_calls[k].released # "raised"

====
